---- MODULE Spec2Model ----
(***************************************************************************)
(* Metadata aggregation engine of lib/hachoir_metadata: the value store    *)
(* (Metadata), the multi-document container (MultipleMetadata), the        *)
(* extractor dispatch (extractMetadata) and the archive extractors         *)
(* (bzip2, zip, tar, cab, mar).                                            *)
(*                                                                         *)
(* Conventions                                                             *)
(*   - quality is a float in the source; here it is counted in hundredths  *)
(*     (0.25 is 25, 1.0 is 100), so int(10 * q) is (10 * q) \div 100.      *)
(*   - documents live on a heap `docs` (a sequence); a document is named   *)
(*     by its index, 0 is Python's None.                                   *)
(*   - a group key is a sequence of tokens: "file[]" is <<"file","[","]">> *)
(*     and "file[2]" is <<"file","[","2","]">>.                            *)
(*   - an operation that can raise returns a record whose exc field names  *)
(*     the exception class ("none": it returned normally).                 *)
(***************************************************************************)
EXTENDS Integers, Sequences, FiniteSets, TLC

VARIABLES
    docs,        \* the heap of documents
    parentOf,    \* for each document, the parent argument of its constructor
    undeclared,  \* keys the injected schema table does not register
    last,        \* the last API call: its arguments, return value, exception
    ncalls,      \* number of addGroup calls made so far
    calls,       \* calls[m][base]: addGroup calls on m with key base + "[]"
    parser,      \* the parsed input handed to extractMetadata
    quality,     \* the quality argument of extractMetadata
    pc,          \* position inside extractMetadata
    index,       \* loop index of the extractor's enumeration
    log,         \* warnings and errors logged, in order
    exc,         \* exception raised by the population routine ("none")
    result,      \* what extractMetadata returned
    processed,   \* indexes of the entries the enumeration handed to its body
    violated     \* a write to an undeclared key has been attempted

vars == <<docs, parentOf, undeclared, last, ncalls, calls, parser, quality,
          pc, index, log, exc, result, processed, violated>>

docVars == <<docs, parentOf, undeclared, last, ncalls, calls>>
extractVars == <<parser, quality, pc, index, log, exc, result, processed, violated>>

----------------------------------------------------------------------------
(* Constants of lib/hachoir_metadata/metadata_item.py *)

MIN_PRIORITY == 100
MAX_PRIORITY == 999
QUALITY_FASTEST == 0
QUALITY_NORMAL == 50
QUALITY_BEST == 100

Min(a, b) == IF a <= b THEN a ELSE b
Max(a, b) == IF a >= b THEN a ELSE b

(* An optional argument left out (Python's None or an empty string). *)
NoPriority == <<>>
NoTitle == <<>>

(* The schema table registerAllItems() injects: key, priority, label, in   *)
(* declaration order.                                                      *)
FullSchema ==
    << [key |-> "author",            priority |-> 102, label |-> "Author"],
       [key |-> "comment",           priority |-> 902, label |-> "Comment"],
       [key |-> "filename",          priority |-> 309, label |-> "File name"],
       [key |-> "file_size",         priority |-> 310, label |-> "File size"],
       [key |-> "compr_size",        priority |-> 312, label |-> "Compressed size"],
       [key |-> "compr_rate",        priority |-> 313, label |-> "Compression rate"],
       [key |-> "file_attr",         priority |-> 400, label |-> "File attributes"],
       [key |-> "file_type",         priority |-> 401, label |-> "File type"],
       [key |-> "creation_date",     priority |-> 500, label |-> "Creation date"],
       [key |-> "last_modification", priority |-> 501, label |-> "Last modification"],
       [key |-> "compression",       priority |-> 600, label |-> "Compression"],
       [key |-> "format_version",    priority |-> 950, label |-> "Format version"],
       [key |-> "mime_type",         priority |-> 951, label |-> "MIME type"],
       [key |-> "endian",            priority |-> 952, label |-> "Endianness"] >>

FullKeys == {FullSchema[i].key : i \in 1..Len(FullSchema)}

Decl(k) == CHOOSE i \in 1..Len(FullSchema) : FullSchema[i].key = k
Priority(k) == FullSchema[Decl(k)].priority
Label(k) == FullSchema[Decl(k)].label

(* registerAllItems(self): one empty Data per declared key. *)
registerAllItems(und) == [k \in FullKeys \ und |-> <<>>]

(* Data.add: append the value unless an equal value is already stored. *)
DataAdd(values, v) ==
    IF \E i \in 1..Len(values) : values[i] = v THEN values ELSE Append(values, v)

(* Data.__cmp__ orders by priority; sorted() is stable, so equal           *)
(* priorities keep declaration order.                                      *)
Before(a, b) ==
    \/ Priority(a) < Priority(b)
    \/ Priority(a) = Priority(b) /\ Decl(a) < Decl(b)

RECURSIVE SortedKeys(_)
SortedKeys(S) ==
    IF S = {} THEN <<>>
    ELSE LET m == CHOOSE k \in S : \A o \in S : o = k \/ Before(k, o)
         IN  <<m>> \o SortedKeys(S \ {m})

----------------------------------------------------------------------------
(* Metadata *)

MultiClasses ==
    {"MultipleMetadata", "ZipMetadata", "TarMetadata", "CabMetadata", "MarMetadata"}

(* the class attribute header: u"Metadata", overridden by MultipleMetadata *)
ClassHeader(cls) == IF cls \in MultiClasses THEN <<"Common">> ELSE <<"Metadata">>

IsMulti(d) == d.cls \in MultiClasses

(* Metadata.__nonzero__: any(self.__data.itervalues()) *)
MetadataNonzero(d) == \E k \in DOMAIN d.data : Len(d.data[k]) >= 1

(* MultipleMetadata.__nonzero__ (Metadata.__nonzero__ for a single document) *)
RECURSIVE Nonzero(_, _)
Nonzero(h, id) ==
    IF MetadataNonzero(h[id]) THEN TRUE
    ELSE IF IsMulti(h[id])
         THEN \E i \in 1..Len(h[id].groups) : Nonzero(h, h[id].groups[i].doc)
         ELSE FALSE

(* Metadata.__init__(self, parent, quality) *)
MetadataInit(h, cls, parent, q, und) ==
    [cls         |-> cls,
     quality     |-> IF parent # 0 /\ Nonzero(h, parent)
                     THEN h[parent].quality
                     ELSE Min(Max(0, q), 100),
     header      |-> ClassHeader(cls),
     data        |-> registerAllItems(und),
     groups      |-> <<>>,
     key_counter |-> [b \in {} |-> 0]]

(* __setattr__ raising, like getItems, ValueError for an unknown key *)
setattr_RaisesValueError(h, id, key, value) ==
    IF key \notin DOMAIN h[id].data
    THEN [exc |-> "ValueError", docs |-> h]
    ELSE [exc |-> "none",
          docs |-> [h EXCEPT ![id].data[key] = DataAdd(@, value)]]

(* Metadata.__setattr__(self, key, value) *)
setattr(h, id, key, value) ==
    IF key \notin DOMAIN h[id].data
    THEN [exc |-> "KeyError", docs |-> h]
    ELSE [exc |-> "none",
          docs |-> [h EXCEPT ![id].data[key] = DataAdd(@, value)]]

(* Metadata.setHeader(self, text) *)
setHeader(h, id, text) == [h EXCEPT ![id].header = text]

(* Metadata.has(self, key) *)
has(d, key) == Len(d.data[key]) >= 1

(* Metadata.getItem(self, key, index) with index = 0: the first item or None *)
HasItem(d, key) == key \in DOMAIN d.data /\ Len(d.data[key]) >= 1

(* Metadata.get(self, key, default) with a default supplied, index = 0 *)
get(d, key, default) == IF HasItem(d, key) THEN d.data[key][1] ELSE default

----------------------------------------------------------------------------
(* Metadata.exportPlaintext *)

HeaderLine(title) == [kind |-> "header", title |-> title]
ItemLine(key, human, value) ==
    [kind |-> "item", title |-> IF human THEN Label(key) ELSE key, text |-> value]

ClampPriority(priority) ==
    IF priority = NoPriority THEN MAX_PRIORITY
    ELSE Min(Max(priority[1], MIN_PRIORITY), MAX_PRIORITY)

FieldLines(d, key, human) ==
    [j \in 1..Len(d.data[key]) |-> ItemLine(key, human, d.data[key][j])]

(* the loop with the cutoff test written priority <= data.priority *)
RECURSIVE ExportFields_CutoffOffByOne(_, _, _, _, _)
ExportFields_CutoffOffByOne(d, sorted, i, priority, human) ==
    IF i > Len(sorted) THEN <<>>
    ELSE IF priority <= Priority(sorted[i]) THEN <<>>
    ELSE FieldLines(d, sorted[i], human)
           \o ExportFields_CutoffOffByOne(d, sorted, i + 1, priority, human)

(* the for loop over sorted(self), from position i of the sorted fields *)
RECURSIVE ExportFields(_, _, _, _, _)
ExportFields(d, sorted, i, priority, human) ==
    IF i > Len(sorted) THEN <<>>
    ELSE IF priority < Priority(sorted[i]) THEN <<>>
    ELSE FieldLines(d, sorted[i], human)
           \o ExportFields(d, sorted, i + 1, priority, human)

exportPlaintext(d, priority, human, title) ==
    LET p    == ClampPriority(priority)
        t    == IF title = NoTitle THEN d.header ELSE title
        text == <<HeaderLine(t)>>
                  \o ExportFields(d, SortedKeys(DOMAIN d.data), 1, p, human)
    IN  IF Len(text) > 1 THEN [kind |-> "lines", lines |-> text]
        ELSE [kind |-> "None", lines |-> <<>>]

----------------------------------------------------------------------------
(* archive.py: computeCompressionRate *)

RECURSIVE GCD(_, _)
GCD(a, b) == IF b = 0 THEN a ELSE GCD(b, a % b)

(* float(file_size) / compr_size, kept as a reduced fraction *)
Rate(file_size, compr_size) ==
    LET g == GCD(file_size, compr_size)
    IN  <<file_size \div g, compr_size \div g>>

(* the derivation without the test of file_size against zero *)
computeCompressionRate_AnySize(h, id) ==
    IF ~has(h[id], "file_size") \/ get(h[id], "compr_size", 0) = 0
    THEN [exc |-> "none", docs |-> h]
    ELSE setattr(h, id, "compr_rate",
                 Rate(get(h[id], "file_size", 0), get(h[id], "compr_size", 0)))

computeCompressionRate(h, id) ==
    IF ~has(h[id], "file_size") \/ get(h[id], "compr_size", 0) = 0
    THEN [exc |-> "none", docs |-> h]
    ELSE IF get(h[id], "file_size", 0) # 0
         THEN setattr(h, id, "compr_rate",
                      Rate(get(h[id], "file_size", 0), get(h[id], "compr_size", 0)))
         ELSE [exc |-> "none", docs |-> h]

----------------------------------------------------------------------------
(* MultipleMetadata *)

EndsWithArray(key) ==
    Len(key) >= 2 /\ key[Len(key) - 1] = "[" /\ key[Len(key)] = "]"

Digit(n) == <<"0", "1", "2", "3", "4", "5", "6", "7", "8", "9">>[n + 1]

(* "%u" % n *)
RECURSIVE ToDec(_)
ToDec(n) == IF n < 10 THEN <<Digit(n)>> ELSE ToDec(n \div 10) \o <<Digit(n % 10)>>

GroupKeys(groups) == {groups[i].key : i \in 1..Len(groups)}

(* Dict.append(key, value): keys are unique, a second append of a key raises *)
DictAppend(groups, key, value) ==
    IF key \in GroupKeys(groups)
    THEN [exc |-> "UniqKeyError", groups |-> groups]
    ELSE [exc |-> "none", groups |-> Append(groups, [key |-> key, doc |-> value])]

(* the index taken before the counter is incremented *)
IndexedKey_ZeroBased(base, n) == base \o <<"[">> \o ToDec(n - 1) \o <<"]">>

(* key += "[%u]" % self.__key_counter[key] *)
IndexedKey(base, n) == base \o <<"[">> \o ToDec(n) \o <<"]">>

(* addGroup counting the occurrence before it tests for an empty group *)
addGroup_CountsRejected(h, m, key, metadata, header) ==
    LET array == EndsWithArray(key)
        base  == SubSeq(key, 1, Len(key) - 2)
        kc    == h[m].key_counter
        n     == IF base \in DOMAIN kc THEN kc[base] + 1 ELSE 1
        kc2   == IF array
                 THEN [b \in DOMAIN kc \cup {base} |-> IF b = base THEN n ELSE kc[b]]
                 ELSE kc
        key2  == IF array THEN IndexedKey(base, n) ELSE key
        h1    == [h EXCEPT ![m].key_counter = kc2]
        h2    == IF header # NoTitle THEN setHeader(h1, metadata, header) ELSE h1
        app   == DictAppend(h2[m].groups, key2, metadata)
    IN  IF ~Nonzero(h, metadata)
        THEN [ret |-> FALSE, exc |-> "none", docs |-> h1, warning |-> TRUE]
        ELSE [ret     |-> app.exc = "none",
              exc     |-> app.exc,
              docs    |-> [h2 EXCEPT ![m].groups = app.groups],
              warning |-> FALSE]

(* MultipleMetadata.addGroup(self, key, metadata, header) *)
addGroup(h, m, key, metadata, header) ==
    IF ~Nonzero(h, metadata)
    THEN [ret |-> FALSE, exc |-> "none", docs |-> h, warning |-> TRUE]
    ELSE LET array == EndsWithArray(key)
             base  == SubSeq(key, 1, Len(key) - 2)
             kc    == h[m].key_counter
             n     == IF base \in DOMAIN kc THEN kc[base] + 1 ELSE 1
             kc2   == IF array
                      THEN [b \in DOMAIN kc \cup {base} |->
                               IF b = base THEN n ELSE kc[b]]
                      ELSE kc
             key2  == IF array THEN IndexedKey(base, n) ELSE key
             h1    == [h EXCEPT ![m].key_counter = kc2]
             h2    == IF header # NoTitle THEN setHeader(h1, metadata, header) ELSE h1
             app   == DictAppend(h2[m].groups, key2, metadata)
         IN  [ret     |-> app.exc = "none",
              exc     |-> app.exc,
              docs    |-> [h2 EXCEPT ![m].groups = app.groups],
              warning |-> FALSE]

(* the for loop of MultipleMetadata.exportPlaintext over the groups: a     *)
(* group that is itself a MultipleMetadata is called with title=..., a     *)
(* keyword its exportPlaintext does not take.                              *)
RECURSIVE ExportGroups(_, _, _, _, _)
ExportGroups(h, groups, i, priority, human) ==
    IF i > Len(groups) THEN [exc |-> "none", lines |-> <<>>]
    ELSE IF IsMulti(h[groups[i].doc]) THEN [exc |-> "TypeError", lines |-> <<>>]
    ELSE LET title == IF human THEN NoTitle ELSE groups[i].key
             value == exportPlaintext(h[groups[i].doc], priority, human, title)
             rest  == ExportGroups(h, groups, i + 1, priority, human)
         IN  IF rest.exc # "none" THEN rest
             ELSE [exc |-> "none", lines |-> value.lines \o rest.lines]

(* MultipleMetadata.exportPlaintext(self, priority, human) *)
MultipleExportPlaintext(h, id, priority, human) ==
    LET common == exportPlaintext(h[id], priority, human, NoTitle)
        rest   == ExportGroups(h, h[id].groups, 1, priority, human)
        text   == common.lines \o rest.lines
    IN  IF rest.exc # "none"
        THEN [kind |-> "raise", exc |-> rest.exc, lines |-> <<>>]
        ELSE IF Len(text) > 0 THEN [kind |-> "lines", lines |-> text]
        ELSE [kind |-> "None", lines |-> <<>>]

(* document.exportPlaintext(priority, human), dispatched on the class *)
Export(h, id, priority, human) ==
    IF IsMulti(h[id]) THEN MultipleExportPlaintext(h, id, priority, human)
    ELSE exportPlaintext(h[id], priority, human, NoTitle)

----------------------------------------------------------------------------
(* Idle values of the variables a specification does not use *)

IdleExtract ==
    /\ parser = [type |-> "none"]
    /\ quality = QUALITY_NORMAL
    /\ pc = "idle"
    /\ index = 0
    /\ log = <<>>
    /\ exc = "none"
    /\ result = [kind |-> "unset"]
    /\ processed = <<>>
    /\ violated = FALSE

----------------------------------------------------------------------------
(* SpecStore: one RootMetadata document, written to and derived from *)

StoreKeys == {"author", "comment", "file_size", "compr_size", "titre"}

StoreValues(k) ==
    IF k = "file_size" THEN {0, 300}
    ELSE IF k = "compr_size" THEN {0, 100}
    ELSE IF k = "author" THEN {"haypo"}
    ELSE {"x", "y"}

StoreInit ==
    /\ docs = <<MetadataInit(<<>>, "RootMetadata", 0, QUALITY_NORMAL, {})>>
    /\ parentOf = <<0>>
    /\ undeclared = {}
    /\ last = [op |-> "init"]
    /\ ncalls = 0
    /\ calls = <<>>
    /\ IdleExtract

(* meta.<key> = value *)
StoreSet ==
    \E k \in StoreKeys : \E v \in StoreValues(k) :
        LET r == setattr(docs, 1, k, v)
        IN  /\ docs' = r.docs
            /\ last' = [op |-> "set", exc |-> r.exc]
            /\ UNCHANGED <<parentOf, undeclared, ncalls, calls>>
            /\ UNCHANGED extractVars

(* computeCompressionRate(meta) *)
StoreRate ==
    LET r == computeCompressionRate(docs, 1)
    IN  /\ docs' = r.docs
        /\ last' = [op |-> "rate", exc |-> r.exc, pre |-> docs[1]]
        /\ UNCHANGED <<parentOf, undeclared, ncalls, calls>>
        /\ UNCHANGED extractVars

StoreNext == StoreSet \/ StoreRate

SpecStore == StoreInit /\ [][StoreNext]_vars

(* C4 as stated: the derivation sets the rate to decompressed/compressed    *)
(* whenever a decompressed size (0 included) and a nonzero compressed size  *)
(* are known, and sets nothing otherwise.                                   *)
HasRate(d, fs, cs) ==
    \E i \in 1..Len(d.data["compr_rate"]) :
        LET r == d.data["compr_rate"][i]
        IN  r[2] # 0 /\ r[1] * cs = r[2] * fs

C4_RateForEveryKnownSize ==
    last.op = "rate" =>
        IF has(last.pre, "file_size") /\ get(last.pre, "compr_size", 0) # 0
        THEN HasRate(docs[1], get(last.pre, "file_size", 0),
                     get(last.pre, "compr_size", 0))
        ELSE docs[1] = last.pre

(* C4 amended: the derivation sets the rate to decompressed/compressed      *)
(* exactly when the first decompressed size and the first compressed size   *)
(* are both known and both nonzero; otherwise (a size missing, or either    *)
(* size 0) it leaves the document as it was; it never raises.               *)
C4_RateForNonzeroSizes ==
    last.op = "rate" =>
        /\ last.exc = "none"
        /\ IF /\ has(last.pre, "file_size")
              /\ get(last.pre, "file_size", 0) # 0
              /\ get(last.pre, "compr_size", 0) # 0
           THEN /\ HasRate(docs[1], get(last.pre, "file_size", 0),
                           get(last.pre, "compr_size", 0))
                /\ \A k \in DOMAIN docs[1].data \ {"compr_rate"} :
                       docs[1].data[k] = last.pre.data[k]
           ELSE docs[1] = last.pre

C4_Witness ==
    /\ last.op = "rate"
    /\ Len(last.pre.data["compr_rate"]) = 0
    /\ docs[1].data["compr_rate"] = << <<3, 1>> >>
    /\ docs[1].data["file_size"] = <<300, 0>>
    /\ docs[1].data["compr_size"] = <<100, 0>>

----------------------------------------------------------------------------
ExportPriorities == {50, 102, 310, 311, 902, 1200}

Eligible(d, p) ==
    {k \in DOMAIN d.data : Priority(k) <= p /\ Len(d.data[k]) >= 1}

RECURSIVE CountValues(_, _)
CountValues(d, S) ==
    IF S = {} THEN 0
    ELSE LET k == CHOOSE x \in S : TRUE
         IN  Len(d.data[k]) + CountValues(d, S \ {k})

LineKey(line) == CHOOSE k \in FullKeys : Label(k) = line.title

LinePos(lines, k, v) ==
    CHOOSE i \in 2..Len(lines) : lines[i].title = Label(k) /\ lines[i].text = v

(* C8: export(priority=p) of a single document is None when no non-empty    *)
(* field has priority <= p (p clamped into [MIN_PRIORITY, MAX_PRIORITY]);   *)
(* otherwise it is one header line "<title>:" followed by exactly one line  *)
(* per value of every non-empty field of priority <= p, none for a field    *)
(* above p, in nondecreasing field priority, values in insertion order.     *)
C8_ExportCutoffAndOrder ==
    \A p \in ExportPriorities :
        LET d  == docs[1]
            cp == Min(Max(p, MIN_PRIORITY), MAX_PRIORITY)
            E  == Eligible(d, cp)
            r  == exportPlaintext(d, <<p>>, TRUE, NoTitle)
            L  == r.lines
        IN  IF E = {} THEN r.kind = "None"
            ELSE /\ r.kind = "lines"
                 /\ L[1] = HeaderLine(d.header)
                 /\ Len(L) = 1 + CountValues(d, E)
                 /\ \A i \in 2..Len(L) :
                        /\ L[i].kind = "item"
                        /\ \E k \in E : L[i].title = Label(k)
                 /\ \A k \in E : \A j \in 1..Len(d.data[k]) :
                        \E i \in 2..Len(L) :
                            L[i].title = Label(k) /\ L[i].text = d.data[k][j]
                 /\ \A i \in 2..Len(L) : \A j \in i..Len(L) :
                        Priority(LineKey(L[i])) <= Priority(LineKey(L[j]))
                 /\ \A k \in E : \A j \in 1..Len(d.data[k]) :
                        \A j2 \in j + 1..Len(d.data[k]) :
                            LinePos(L, k, d.data[k][j]) < LinePos(L, k, d.data[k][j2])

C8_Witness ==
    /\ docs[1].data["comment"] = <<"y", "x">>
    /\ docs[1].data["file_size"] = <<300, 0>>
    /\ docs[1].data["author"] = <<"haypo">>
    /\ exportPlaintext(docs[1], <<310>>, TRUE, NoTitle).lines
         = << HeaderLine(<<"Metadata">>),
              ItemLine("author", TRUE, "haypo"),
              ItemLine("file_size", TRUE, 300),
              ItemLine("file_size", TRUE, 0) >>

----------------------------------------------------------------------------
(* SpecGroups: two multi-documents and a single document; values are set   *)
(* and documents are added as groups of a multi-document created earlier   *)
(* (a multi-document owns its groups as a tree).                           *)

MaxCalls == 3

ArrayBases == {<<"file">>, <<"dir">>}
AddKeys == {<<"file", "[", "]">>, <<"dir", "[", "]">>, <<"info">>}
AddHeaders == {NoTitle, <<"File">>}
GroupValues == {"x"}

GroupsHeap ==
    LET m1 == MetadataInit(<<>>, "MultipleMetadata", 0, QUALITY_NORMAL, {})
        m2 == MetadataInit(<<m1>>, "MultipleMetadata", 0, QUALITY_NORMAL, {})
        d3 == MetadataInit(<<m1, m2>>, "Metadata", 1, QUALITY_NORMAL, {})
    IN  <<m1, m2, d3>>

Multis(h) == {id \in 1..Len(h) : IsMulti(h[id])}

GroupsInit ==
    /\ docs = GroupsHeap
    /\ parentOf = <<0, 0, 1>>
    /\ undeclared = {}
    /\ last = [op |-> "init"]
    /\ ncalls = 0
    /\ calls = [m \in Multis(GroupsHeap) |->
                  [b \in ArrayBases |-> [made |-> 0, nonempty |-> 0]]]
    /\ IdleExtract

(* document.comment = value *)
GroupSet ==
    \E d \in 1..Len(docs) : \E v \in GroupValues :
        LET r == setattr(docs, d, "comment", v)
        IN  /\ docs' = r.docs
            /\ last' = [op |-> "set", exc |-> r.exc]
            /\ UNCHANGED <<parentOf, undeclared, ncalls, calls>>
            /\ UNCHANGED extractVars

(* m.addGroup(key, document, header) *)
GroupAdd ==
    /\ ncalls < MaxCalls
    /\ \E m \in Multis(docs) : \E d \in (m + 1)..Len(docs) :
       \E key \in AddKeys : \E header \in AddHeaders :
        LET r    == addGroup(docs, m, key, d, header)
            base == SubSeq(key, 1, Len(key) - 2)
        IN  /\ docs' = r.docs
            /\ last' = [op |-> "addGroup", m |-> m, key |-> key, doc |-> d,
                        header |-> header, ret |-> r.ret, exc |-> r.exc]
            /\ ncalls' = ncalls + 1
            /\ calls' = IF EndsWithArray(key)
                        THEN [calls EXCEPT
                                ![m][base].made = @ + 1,
                                ![m][base].nonempty =
                                    IF Nonzero(docs, d) THEN @ + 1 ELSE @]
                        ELSE calls
            /\ UNCHANGED <<parentOf, undeclared>>
            /\ UNCHANGED extractVars

GroupsNext == GroupSet \/ GroupAdd

SpecGroups == GroupsInit /\ [][GroupsNext]_vars

(* the document has zero values in every field and so has, recursively,    *)
(* every child group                                                       *)
RECURSIVE AllEmpty(_, _)
AllEmpty(h, id) ==
    /\ \A k \in DOMAIN h[id].data : Len(h[id].data[k]) = 0
    /\ \A i \in 1..Len(h[id].groups) : AllEmpty(h, h[id].groups[i].doc)

(* C3: for every document, export() with default arguments returns None if *)
(* and only if the document and, recursively, every child group have zero  *)
(* values in every field; otherwise it returns a non-empty sequence of     *)
(* lines.                                                                  *)
C3_ExportNoneIffEmpty ==
    \A id \in 1..Len(docs) :
        LET r == Export(docs, id, NoPriority, TRUE)
        IN  IF AllEmpty(docs, id) THEN r.kind = "None"
            ELSE r.kind = "lines" /\ Len(r.lines) >= 1

----------------------------------------------------------------------------
IsIndexedOf(key, base) ==
    /\ Len(key) > Len(base) + 2
    /\ SubSeq(key, 1, Len(base)) = base
    /\ key[Len(base) + 1] = "["
    /\ key[Len(key)] = "]"

StoredUnder(m, base) ==
    SelectSeq(docs[m].groups, LAMBDA g : IsIndexedOf(g.key, base))

(* C6 as stated: k add_group calls with the key base[] store, whatever the *)
(* documents passed, the k keys base[1] .. base[k] in call order.          *)
C6_IndexIsCallPosition ==
    \A m \in Multis(docs) : \A base \in ArrayBases :
        /\ Len(StoredUnder(m, base)) = calls[m][base].made
        /\ \A i \in 1..Len(StoredUnder(m, base)) :
               StoredUnder(m, base)[i].key = base \o <<"[", Digit(i), "]">>

(* C6 amended: the add_group calls with the key base[] that pass a         *)
(* non-empty document store, in call order, the distinct keys base[1],     *)
(* base[2], ..: the trailing index is the call's position among the calls  *)
(* with a non-empty document; a call with an empty document stores nothing *)
(* and uses up no index.                                                   *)
C6_IndexIsAcceptedPosition ==
    \A m \in Multis(docs) : \A base \in ArrayBases :
        /\ Len(StoredUnder(m, base)) = calls[m][base].nonempty
        /\ \A i \in 1..Len(StoredUnder(m, base)) :
               StoredUnder(m, base)[i].key = base \o <<"[", Digit(i), "]">>
        /\ Cardinality(GroupKeys(docs[m].groups)) = Len(docs[m].groups)
        /\ (last.op = "addGroup" /\ last.m = m /\ last.ret
               /\ last.key = base \o <<"[", "]">>)
             => /\ docs[m].groups[Len(docs[m].groups)].doc = last.doc
                /\ docs[m].groups[Len(docs[m].groups)].key
                     = base \o <<"[", Digit(calls[m][base].nonempty), "]">>

C6_Witness ==
    /\ calls[1][<<"file">>] = [made |-> 3, nonempty |-> 3]
    /\ [i \in 1..Len(docs[1].groups) |-> docs[1].groups[i].key]
         = << <<"file", "[", "1", "]">>, <<"file", "[", "2", "]">>,
              <<"file", "[", "3", "]">> >>

----------------------------------------------------------------------------
(* C7: add_group with an empty document returns false and changes nothing: *)
(* the groups, the occurrence counters and the headers of the              *)
(* multi-document and of the document passed stay as they were.            *)
C7_EmptyAddChangesNothing ==
    [][(ncalls' = ncalls + 1 /\ ~Nonzero(docs, last'.doc))
         => (last'.ret = FALSE /\ last'.exc = "none" /\ docs' = docs)]_vars

(* a rejected call between two accepted ones: the second accepted call     *)
(* gets index 2                                                            *)
C7_Witness ==
    /\ ncalls = 3
    /\ calls[1][<<"file">>] = [made |-> 3, nonempty |-> 2]
    /\ last.op = "addGroup" /\ last.ret /\ last.m = 1
    /\ last.key = <<"file", "[", "]">>
    /\ docs[1].groups[Len(docs[1].groups)].key = <<"file", "[", "2", "]">>

----------------------------------------------------------------------------
(* archive.py: the extractors, and metadata.py: extractMetadata *)

(* error.HACHOIR_ERRORS, the classes the step wrapper and the dispatcher    *)
(* contain: a missing field, a conversion error.                            *)
HACHOIR_ERRORS == {"MissingField", "ValueError"}

(* safe.fault_tolerant: the wrapped step's error is logged and swallowed;   *)
(* what the step wrote before it stays.                                     *)
fault_tolerant(r) ==
    IF r.exc \in HACHOIR_ERRORS
    THEN [r EXCEPT !.exc = "none", !.log = Append(@, <<"warning", r.exc>>)]
    ELSE r

(* maxNbFile with QUALITY_FASTEST tested by < *)
maxNbFile_StrictFastest(meta) ==
    IF meta.quality < QUALITY_FASTEST THEN [bounded |-> TRUE, n |-> 0]
    ELSE IF QUALITY_BEST <= meta.quality THEN [bounded |-> FALSE, n |-> 0]
    ELSE [bounded |-> TRUE, n |-> 1 + (10 * meta.quality) \div 100]

(* maxNbFile(meta); None is bounded = FALSE *)
maxNbFile(meta) ==
    IF meta.quality <= QUALITY_FASTEST THEN [bounded |-> TRUE, n |-> 0]
    ELSE IF QUALITY_BEST <= meta.quality THEN [bounded |-> FALSE, n |-> 0]
    ELSE [bounded |-> TRUE, n |-> 1 + (10 * meta.quality) \div 100]

(* registerExtractor(...) at the end of archive.py *)
extractors ==
    [t \in {"CabFile", "GzipParser", "Bzip2Parser", "TarFile", "ZipFile", "MarFile"} |->
        CASE t = "CabFile" -> "CabMetadata"
          [] t = "GzipParser" -> "GzipMetadata"
          [] t = "Bzip2Parser" -> "Bzip2Metadata"
          [] t = "TarFile" -> "TarMetadata"
          [] t = "ZipFile" -> "ZipMetadata"
          [] t = "MarFile" -> "MarMetadata"]

(* field.name of the index-th field of parser.array("file") *)
FieldName(i) == <<"file", "[">> \o ToDec(i) \o <<"]">>

(* One statement of an extraction step: the field reads it makes (by their *)
(* ordinal inside the step) and the key it then writes, if it writes.      *)
Stmt(reads, key, value, doset) ==
    [reads |-> reads, key |-> key, value |-> value, doset |-> doset]

(* Runs statements i.. of a step on document id; `bad` is the ordinal of   *)
(* the read that finds its field missing (0: none).                        *)
RECURSIVE Exec(_, _, _, _, _)
Exec(h, id, stmts, i, bad) ==
    IF i > Len(stmts) THEN [exc |-> "none", docs |-> h, log |-> <<>>, wrote |-> {}]
    ELSE IF bad \in stmts[i].reads
    THEN [exc |-> "MissingField", docs |-> h, log |-> <<>>, wrote |-> {}]
    ELSE IF ~stmts[i].doset THEN Exec(h, id, stmts, i + 1, bad)
    ELSE LET r == setattr(h, id, stmts[i].key, stmts[i].value)
         IN  IF r.exc # "none"
             THEN [exc |-> r.exc, docs |-> r.docs, log |-> <<>>,
                   wrote |-> {stmts[i].key}]
             ELSE LET rest == Exec(r.docs, id, stmts, i + 1, bad)
                  IN  [rest EXCEPT !.wrote = @ \cup {stmts[i].key}]

(* statement sequencing: b runs only if a returned normally *)
Then(a, b) ==
    IF a.exc # "none" THEN a
    ELSE [exc |-> b.exc, docs |-> b.docs, log |-> a.log \o b.log,
          wrote |-> a.wrote \cup b.wrote]

Plain(r) == [exc |-> r.exc, docs |-> r.docs, log |-> <<>>, wrote |-> {}]

(* self.addGroup(...) as a statement: the skipped group is logged *)
AddGroupStmt(h, key, id, header) ==
    LET r == addGroup(h, 1, key, id, header)
    IN  [exc |-> r.exc, docs |-> r.docs,
         log |-> IF r.warning THEN << <<"warning", "Skip empty group">> >> ELSE <<>>,
         wrote |-> {}]

(* meta = Metadata(self): the new document is the last of the heap *)
NewChild(h, und) == Append(h, MetadataInit(h, "Metadata", 1, QUALITY_NORMAL, und))

(* title = 'File "%s"' % meta.getText('filename') if meta.has("filename"), *)
(* else "File"                                                            *)
FileTitle(d) ==
    IF has(d, "filename") THEN <<"File", d.data["filename"][1]>> ELSE <<"File">>

(* 'File "%s"' % meta.getText('filename'), None when there is no filename *)
QuotedTitle(d) == <<"File", get(d, "filename", "None")>>

(* ZipMetadata.processFile, under @fault_tolerant *)
processFile(h, und, e, i) ==
    LET h0 == NewChild(h, und)
        id == Len(h0)
        a  == Exec(h0, id,
                   << Stmt({1}, "filename", e.name, TRUE),
                      Stmt({2}, "creation_date", "date", TRUE),
                      Stmt({3}, "compression", "deflate", TRUE),
                      Stmt({4}, "file_size", e.fsize, TRUE),
                      Stmt({5}, "compr_size", e.csize, e.csize # 0) >>, 1, e.bad)
        b  == IF a.exc # "none" THEN a
              ELSE Then(a, Plain(computeCompressionRate(a.docs, id)))
        c  == IF b.exc # "none" THEN b
              ELSE Then(b, AddGroupStmt(b.docs, FieldName(i), id, QuotedTitle(b.docs[id])))
    IN  fault_tolerant(c)

(* TarMetadata.extractFile, under @fault_tolerant; an invalid mtime raises *)
(* ValueError inside the try and is passed over.                           *)
extractFile(h, id, e) ==
    fault_tolerant(
        Exec(h, id,
             << Stmt({1}, "filename", e.name, TRUE),
                Stmt({2}, "file_attr", "-rwxr-xr-x", TRUE),
                Stmt({3}, "file_size", e.fsize, TRUE),
                Stmt({4}, "last_modification", "date", e.mtime = "ok"),
                Stmt({5}, "file_type", "Normal disk file", TRUE),
                Stmt({6, 7, 8, 9}, "author", e.name, TRUE) >>, 1, e.bad))

(* the body of TarMetadata.extract's loop *)
TarBody(h, und, e, i) ==
    LET h0 == NewChild(h, und)
        id == Len(h0)
        a  == extractFile(h0, id, e)
    IN  IF a.exc # "none" THEN a
        ELSE Then(a, AddGroupStmt(a.docs, FieldName(i), id, FileTitle(a.docs[id])))

(* CabMetadata.useFolder, under @fault_tolerant *)
useFolder(h, bad) ==
    fault_tolerant(Exec(h, 1, << Stmt({1}, "compression", "MSZIP", TRUE) >>, 1, bad))

(* CabMetadata.extract up to its loop *)
CabOwn(h, p) ==
    LET a == IF p.present THEN useFolder(h, p.ownbad)
             ELSE [exc |-> "none", docs |-> h, log |-> <<>>, wrote |-> {}]
        b == IF a.exc # "none" THEN a
             ELSE Then(a, Exec(a.docs, 1,
                               << Stmt({2}, "format_version", "Microsoft Cabinet", TRUE),
                                  Stmt({3, 4}, "comment", "folders, files", TRUE) >>,
                               1, p.ownbad))
    IN  b

(* CabMetadata.useFile, under @fault_tolerant *)
useFile(h, und, e, i) ==
    LET h0 == NewChild(h, und)
        id == Len(h0)
        a  == Exec(h0, id,
                   << Stmt({1}, "filename", e.name, TRUE),
                      Stmt({2}, "file_size", e.fsize, TRUE),
                      Stmt({3}, "creation_date", "date", TRUE),
                      Stmt({4}, "file_attr", e.attr, e.attr # "(none)") >>, 1, e.bad)
        b  == IF a.exc # "none" THEN a
              ELSE Then(a, AddGroupStmt(a.docs, FieldName(i), id, FileTitle(a.docs[id])))
    IN  fault_tolerant(b)

(* MarMetadata.extract up to its loop *)
MarOwn(h, p) ==
    Exec(h, 1, << Stmt({1}, "comment", "Contains files", TRUE),
                  Stmt({2}, "format_version", "Microsoft Archive", TRUE) >>,
         1, p.ownbad)

(* the body of MarMetadata.extract's loop *)
MarBody(h, und, e, i) ==
    LET h0 == NewChild(h, und)
        id == Len(h0)
        a  == Exec(h0, id,
                   << Stmt({1}, "filename", e.name, TRUE),
                      Stmt({}, "compression", "None", TRUE),
                      Stmt({2}, "file_size", e.fsize, TRUE) >>, 1, e.bad)
    IN  IF a.exc # "none" THEN a
        ELSE Then(a, AddGroupStmt(a.docs, FieldName(i), id, QuotedTitle(a.docs[id])))

(* Bzip2Metadata.extract *)
Bzip2Extract(h, p) ==
    Exec(h, 1, << Stmt({}, "compr_size", p.bits \div 8, p.present) >>, 1, 0)

(* extractMetadata returning None once population has raised or has left  *)
(* the document empty                                                      *)
Finalize_NoneWhenEmpty(h, e, p) ==
    IF e \notin HACHOIR_ERRORS \cup {"none"}
    THEN [result |-> [kind |-> "raise", exc |-> e], docs |-> h, log |-> <<>>]
    ELSE LET lg == IF e = "none" THEN <<>> ELSE << <<"error", e>> >>
             a  == setattr(h, 1, "mime_type", p.type)
             b  == IF a.exc # "none" THEN a ELSE setattr(a.docs, 1, "endian", "Little endian")
         IN  IF ~Nonzero(h, 1)
             THEN [result |-> [kind |-> "None"], docs |-> h, log |-> lg]
             ELSE IF b.exc # "none"
             THEN [result |-> [kind |-> "raise", exc |-> b.exc], docs |-> b.docs, log |-> lg]
             ELSE [result |-> [kind |-> "doc", doc |-> 1], docs |-> b.docs, log |-> lg]

(* extractMetadata from the except clause on: a contained error is logged, *)
(* any other propagates; a non-empty document gets mime_type and endian.   *)
Finalize(h, e, p) ==
    IF e \notin HACHOIR_ERRORS \cup {"none"}
    THEN [result |-> [kind |-> "raise", exc |-> e], docs |-> h, log |-> <<>>]
    ELSE LET lg == IF e = "none" THEN <<>> ELSE << <<"error", e>> >>
             a  == setattr(h, 1, "mime_type", p.type)
             b  == IF a.exc # "none" THEN a ELSE setattr(a.docs, 1, "endian", "Little endian")
         IN  IF ~Nonzero(h, 1)
             THEN [result |-> [kind |-> "doc", doc |-> 1], docs |-> h, log |-> lg]
             ELSE IF b.exc # "none"
             THEN [result |-> [kind |-> "raise", exc |-> b.exc], docs |-> b.docs, log |-> lg]
             ELSE [result |-> [kind |-> "doc", doc |-> 1], docs |-> b.docs, log |-> lg]

----------------------------------------------------------------------------
(* SpecExtract: one call extractMetadata(parser, quality) *)

MaxFiles == 3

(* contained entries: values, and the ordinal of the read that fails *)
EntryKinds ==
    { [name |-> "a", fsize |-> 300, csize |-> 100, bad |-> 0, mtime |-> "ok", attr |-> "rw"],
      [name |-> "b", fsize |-> 0, csize |-> 0, bad |-> 0, mtime |-> "invalid", attr |-> "(none)"],
      [name |-> "c", fsize |-> 300, csize |-> 100, bad |-> 1, mtime |-> "ok", attr |-> "rw"],
      [name |-> "d", fsize |-> 300, csize |-> 100, bad |-> 2, mtime |-> "zero", attr |-> "rw"] }

FileSeqs == UNION {[1..n -> EntryKinds] : n \in 0..MaxFiles}

Containers == {"ZipFile", "TarFile", "CabFile", "MarFile"}

Parsers ==
    {[type |-> t, files |-> f, ownbad |-> 0, present |-> TRUE, bits |-> 0] :
        t \in {"ZipFile", "TarFile"}, f \in FileSeqs}
    \cup {[type |-> "CabFile", files |-> f, ownbad |-> b, present |-> pr, bits |-> 0] :
        f \in FileSeqs, b \in {0, 1, 2}, pr \in BOOLEAN}
    \cup {[type |-> "MarFile", files |-> f, ownbad |-> b, present |-> TRUE, bits |-> 0] :
        f \in FileSeqs, b \in {0, 1, 2}}
    \cup {[type |-> "Bzip2Parser", files |-> <<>>, ownbad |-> 0, present |-> pr, bits |-> 800] :
        pr \in BOOLEAN}
    \cup {[type |-> "ExeFile", files |-> <<>>, ownbad |-> 0, present |-> TRUE, bits |-> 0]}

Qualities == {-50, 5, 15, 25, 150}

UndeclaredChoices == {{}, {"compression"}}

ExtractInit ==
    /\ docs = <<>>
    /\ parentOf = <<>>
    /\ undeclared \in UndeclaredChoices
    /\ last = [op |-> "init"]
    /\ ncalls = 0
    /\ calls = <<>>
    /\ parser \in Parsers
    /\ quality \in Qualities
    /\ pc = "start"
    /\ index = 0
    /\ log = <<>>
    /\ exc = "none"
    /\ result = [kind |-> "unset"]
    /\ processed = <<>>
    /\ violated = FALSE

(* extractMetadata: the registry lookup and the extractor's construction *)
Dispatch ==
    /\ pc = "start"
    /\ IF parser.type \notin DOMAIN extractors
       THEN /\ result' = [kind |-> "None"]
            /\ pc' = "done"
            /\ UNCHANGED <<docs, parentOf>>
       ELSE /\ docs' = <<MetadataInit(<<>>, extractors[parser.type], 0, quality, undeclared)>>
            /\ parentOf' = <<0>>
            /\ pc' = "extract"
            /\ UNCHANGED result
    /\ UNCHANGED <<undeclared, last, ncalls, calls, parser, quality, index, log,
                   exc, processed, violated>>

NoStep(h) == [exc |-> "none", docs |-> h, log |-> <<>>, wrote |-> {}]

(* metadata.extract(parser) up to the enumeration of the contained files *)
ExtractOwn ==
    /\ pc = "extract"
    /\ LET r == CASE parser.type = "CabFile" -> CabOwn(docs, parser)
                  [] parser.type = "MarFile" -> MarOwn(docs, parser)
                  [] parser.type = "Bzip2Parser" -> Bzip2Extract(docs, parser)
                  [] OTHER -> NoStep(docs)
       IN  /\ docs' = r.docs
           /\ log' = log \o r.log
           /\ exc' = r.exc
           /\ violated' = (violated \/ r.wrote \cap undeclared # {})
           /\ pc' = IF r.exc # "none" \/ parser.type = "Bzip2Parser"
                    THEN "finish" ELSE "loop"
    /\ UNCHANGED <<parentOf, undeclared, last, ncalls, calls, parser, quality,
                   index, result, processed>>

Truncated ==
    /\ maxNbFile(docs[1]).bounded
    /\ maxNbFile(docs[1]).n <= index

(* one iteration of the for loop: the index-th contained file is processed *)
LoopBody ==
    /\ pc = "loop"
    /\ index < Len(parser.files)
    /\ ~Truncated
    /\ LET e == parser.files[index + 1]
           r == CASE parser.type = "ZipFile" -> processFile(docs, undeclared, e, index)
                  [] parser.type = "TarFile" -> TarBody(docs, undeclared, e, index)
                  [] parser.type = "CabFile" -> useFile(docs, undeclared, e, index)
                  [] parser.type = "MarFile" -> MarBody(docs, undeclared, e, index)
       IN  /\ docs' = r.docs
           /\ parentOf' = Append(parentOf, 1)
           /\ processed' = Append(processed, index)
           /\ log' = log \o r.log
           /\ exc' = r.exc
           /\ violated' = (violated \/ r.wrote \cap undeclared # {})
           /\ pc' = IF r.exc # "none" THEN "finish" ELSE "loop"
           /\ index' = IF r.exc # "none" THEN index ELSE index + 1
    /\ UNCHANGED <<undeclared, last, ncalls, calls, parser, quality, result>>

(* the for loop ends: the files are exhausted, or max_nb <= index, which   *)
(* logs the warning and breaks                                             *)
LoopEnd ==
    /\ pc = "loop"
    /\ index >= Len(parser.files) \/ Truncated
    /\ log' = IF index < Len(parser.files)
              THEN Append(log, <<"warning", "only first files are processed">>)
              ELSE log
    /\ pc' = "finish"
    /\ UNCHANGED <<docs, parentOf, undeclared, last, ncalls, calls, parser, quality,
                   index, exc, result, processed, violated>>

(* extractMetadata after metadata.extract(parser) returned or raised *)
Finish ==
    /\ pc = "finish"
    /\ LET r == Finalize(docs, exc, parser)
       IN  /\ result' = r.result
           /\ docs' = r.docs
           /\ log' = log \o r.log
    /\ pc' = "done"
    /\ UNCHANGED <<parentOf, undeclared, last, ncalls, calls, parser, quality,
                   index, exc, processed, violated>>

ExtractNext == Dispatch \/ ExtractOwn \/ LoopBody \/ LoopEnd \/ Finish

SpecExtract == ExtractInit /\ [][ExtractNext]_vars

----------------------------------------------------------------------------
Registered == parser.type \in DOMAIN extractors

(* C1 as stated: extract returns None when no extractor is registered or   *)
(* when population extracted nothing, and otherwise a non-empty document;  *)
(* it never returns an empty document.                                     *)
C1_NoneOrNonEmpty ==
    (pc = "done" /\ undeclared = {}) =>
        IF ~Registered THEN result.kind = "None"
        ELSE IF ~Nonzero(docs, 1) THEN result.kind = "None"
        ELSE result.kind = "doc"

(* C1 amended: extract returns None exactly when no extractor is           *)
(* registered for the parser's type. With an extractor registered it       *)
(* returns the extractor's document whenever population returned or raised *)
(* a contained error (which is logged): the document is partial after an   *)
(* error and is empty when nothing was extracted; the MIME type and the    *)
(* byte order are attached exactly when the document is not empty.         *)
C1_NoneOnlyWhenUnregistered ==
    pc = "done" =>
        /\ result.kind = "None" <=> ~Registered
        /\ Registered =>
              IF exc \in HACHOIR_ERRORS \cup {"none"}
              THEN /\ result = [kind |-> "doc", doc |-> 1]
                   /\ has(docs[1], "mime_type") <=> Nonzero(docs, 1)
                   /\ has(docs[1], "endian") <=> Nonzero(docs, 1)
                   /\ exc # "none" =>
                         \E i \in 1..Len(log) : log[i] = <<"error", exc>>
              ELSE result = [kind |-> "raise", exc |-> exc]

(* an empty document is returned for an archive that has entries *)
C1_Witness ==
    /\ pc = "done"
    /\ parser.type = "ZipFile"
    /\ Len(parser.files) = 2
    /\ Len(processed) = 2
    /\ result = [kind |-> "doc", doc |-> 1]
    /\ ~Nonzero(docs, 1)

----------------------------------------------------------------------------
TruncationWarning == <<"warning", "only first files are processed">>

----------------------------------------------------------------------------
----------------------------------------------------------------------------
(* C9: in zip, tar, cab and mar a failure while extracting one entry or    *)
(* one own-document field aborts only that step: the enumeration goes on   *)
(* up to the quality bound, so every entry within the bound that can be    *)
(* read gets its group.                                                    *)
C9_FailureAbortsOnlyItsStep ==
    (pc = "done" /\ parser.type \in Containers /\ undeclared = {}) =>
        LET N   == Len(parser.files)
            m   == maxNbFile(docs[1])
            k   == IF m.bounded THEN Min(N, m.n) ELSE N
        IN  \A i \in 0..(k - 1) :
                parser.files[i + 1].bad = 0
                    => FieldName(i) \in GroupKeys(docs[1].groups)

----------------------------------------------------------------------------
(* C10: a document constructed with a parent has its parent's quality; one *)
(* constructed without a parent has the caller's quality clamped into      *)
(* [0,1]; all documents of one extraction share the root's quality.        *)
C10_QualityInherited ==
    \A d \in 1..Len(docs) :
        IF parentOf[d] # 0 THEN docs[d].quality = docs[parentOf[d]].quality
        ELSE docs[d].quality = Min(Max(0, quality), 100)

====
